---- MODULE Spec2Model ----
(***************************************************************************)
(* The two command-line programs of the repository, simple_attachment and  *)
(* simple_dql, as state machines.  One process runs at a time against the  *)
(* persistent local store; the store, the observer and the attachment      *)
(* fetch of the document-sync client are the environment the programs call *)
(* into.                                                                   *)
(***************************************************************************)
EXTENDS Naturals, Sequences, FiniteSets

\* ------------------------------------------------------------------ bounds
MaxDocs == 2        \* documents the local store holds, both collections together
MaxCallbacks == 3   \* observer callback invocations per run
MaxEvents == 2      \* Progress events per fetch
MaxForeign == 1     \* documents in the store that another writer shaped

\* Local files given to upload-photo.  file_name is <<>> where
\* Path::file_name() / OsStr::to_str() yields None.
Paths ==
  { [file_name |-> <<"a.png">>, id |-> 1, len |-> 1],
    [file_name |-> <<>>,        id |-> 2, len |-> 2] }

Names == {"a.png", "photo"}
Makes == {"ford", "kia"}
Colors == {"blue", "red"}
Car == [color : Colors, make : Makes]

VARIABLES
  pc,           \* position of the running process
  cmd,          \* the parsed subcommand of the running process
  calls,        \* facade calls of this process, in order, with their outcome
  out,          \* lines this process printed
  photos,       \* collection photos, in query-result order
  cars,         \* collection cars, in query-result order
  insertedCars, \* cars whose insert-car succeeded (history)
  tx,           \* Some(tx) held by the observer closure
  chan,         \* items sent on the one-shot channel, not yet received
  observer,     \* "none" | "registered" | "cancelled"
  dirty,        \* the observer owes its callback a result
  cbLog,        \* results the observer callback was invoked with (history)
  result_item,  \* <<item>> once rx.await has returned
  fetch,        \* the attachment fetch: state, bytes downloaded, total
  events,       \* fetch events delivered to the callback (history)
  panicked      \* the fetch callback panicked

procVars == <<pc, cmd, calls, out>>
recvVars == <<tx, chan, observer, dirty, cbLog, result_item>>
fetchVars == <<fetch, events, panicked>>
attVars == <<photos, tx, chan, observer, dirty, cbLog, result_item, fetch, events, panicked>>
dqlVars == <<cars, insertedCars>>
vars == <<pc, cmd, calls, out, photos, cars, insertedCars, tx, chan,
          observer, dirty, cbLog, result_item, fetch, events, panicked>>

NoFetch == [state |-> "Idle", downloaded |-> 0, total |-> 0, id |-> 0]

Init ==
  /\ pc = "none"
  /\ cmd = [op |-> "none"]
  /\ calls = <<>>
  /\ out = <<>>
  /\ photos = <<>>
  /\ cars = <<>>
  /\ insertedCars = {}
  /\ tx = FALSE
  /\ chan = <<>>
  /\ observer = "none"
  /\ dirty = FALSE
  /\ cbLog = <<>>
  /\ result_item = <<>>
  /\ fetch = NoFetch
  /\ events = <<>>
  /\ panicked = FALSE

\* ------------------------------------------------------------- helpers
Exited == pc \in {"none", "done", "failed", "aborted"}

\* A facade call and its outcome, appended to the process's call log.
Called(name, ok) == Append(calls, [call |-> name, ok |-> ok])

\* The store is bounded: one more document fits.
StoreHasRoom == Len(photos) + Len(cars) < MaxDocs

\* A cars document without the field make.
IsForeignCar(d) == d.make = <<>>

\* The id the store gives the next document of a collection (nothing is deleted).
NewId(s) == Len(s) + 1

\* The store places a new document somewhere in the (unordered) result order.
InsertAt(s, d, i) == SubSeq(s, 1, i) \o <<d>> \o SubSeq(s, i + 1, Len(s))

\* ===================================================== simple_attachment
AttCmds ==
  { [op |-> "upload", path |-> p] : p \in Paths } \cup
  { [op |-> "download", name |-> n] : n \in Names }

\* Cli::parse: a new process starts with one subcommand.
att_main_parse ==
  /\ Exited
  /\ \E c \in AttCmds : cmd' = c
  /\ pc' = "init"
  /\ calls' = <<>>
  /\ out' = <<>>
  /\ tx' = FALSE
  /\ chan' = <<>>
  /\ observer' = "none"
  /\ dirty' = FALSE
  /\ cbLog' = <<>>
  /\ result_item' = <<>>
  /\ fetch' = NoFetch
  /\ events' = <<>>
  /\ panicked' = FALSE
  /\ UNCHANGED <<photos, cars, insertedCars>>

\* AppId::from_str, PersistentRoot, with_identity, build: each `?`.
att_main_build ==
  /\ pc = "init"
  /\ cmd.op \in {"upload", "download"}
  /\ \E ok \in BOOLEAN :
       /\ calls' = Called("build", ok)
       /\ pc' = IF ok THEN "built" ELSE "failed"
  /\ UNCHANGED <<cmd, out, cars, insertedCars>>
  /\ UNCHANGED attVars

\* ditto.start_sync()?
att_main_start_sync ==
  /\ pc = "built"
  /\ cmd.op \in {"upload", "download"}
  /\ \E ok \in BOOLEAN :
       /\ calls' = Called("start_sync", ok)
       /\ pc' = IF ok THEN "synced" ELSE "failed"
  /\ UNCHANGED <<cmd, out, cars, insertedCars>>
  /\ UNCHANGED attVars

\* path.file_name().and_then(|s| s.to_str()).unwrap_or("photo")
photo_name(path) == IF path.file_name = <<>> THEN "photo" ELSE path.file_name[1]

\* The attachment token new_attachment returns for a file: a JSON object
\* with the attachment's id (and its length).
new_attachment(path) == [kind |-> "object", id |-> <<path.id>>, len |-> path.len]

\* photo_attachment values of documents another writer put into photos: the
\* field absent, not an object, an object without "id".
ForeignAttachments ==
  { [kind |-> "missing", id |-> <<>>, len |-> 0],
    [kind |-> "string",  id |-> <<>>, len |-> 0],
    [kind |-> "object",  id |-> <<>>, len |-> 1] }

\* Such a document, stored under a name.
ForeignPhotos ==
  { [photo_name |-> "a.png", photo_attachment |-> a] : a \in ForeignAttachments }

\* A photos document upload_photo would not have written.
IsForeignPhoto(d) == d.photo_attachment \in ForeignAttachments

\* The :photo_doc argument of the INSERT.
photo_doc(path) ==
  [photo_name |-> photo_name(path), photo_attachment |-> new_attachment(path)]

\* A stored document: the inserted fields and the id the store gives it.
PhotoStored(doc, id) ==
  [id |-> id, photo_name |-> doc.photo_name, photo_attachment |-> doc.photo_attachment]

\* Faulty variant: the error of new_attachment is dropped and upload_photo goes on.
upload_photo_new_attachment_ignore_err ==
  /\ pc = "synced"
  /\ cmd.op = "upload"
  /\ \E ok \in BOOLEAN : calls' = Called("new_attachment", ok)
  /\ pc' = "attached"
  /\ UNCHANGED <<cmd, out, cars, insertedCars>>
  /\ UNCHANGED attVars

\* store.new_attachment(path, ..).await?
upload_photo_new_attachment ==
  /\ pc = "synced"
  /\ cmd.op = "upload"
  /\ \E ok \in BOOLEAN :
       /\ calls' = Called("new_attachment", ok)
       /\ pc' = IF ok THEN "attached" ELSE "failed"
  /\ UNCHANGED <<cmd, out, cars, insertedCars>>
  /\ UNCHANGED attVars

\* store.execute("INSERT INTO COLLECTION photos ...").await?, then println!
upload_photo_execute ==
  /\ pc = "attached"
  /\ cmd.op = "upload"
  /\ \/ /\ StoreHasRoom
        /\ \E i \in 0..Len(photos) :
             photos' = InsertAt(photos, PhotoStored(photo_doc(cmd.path), NewId(photos)), i)
        /\ calls' = Called("execute", TRUE)
        /\ out' = Append(out, [line |-> "Uploaded", photo_name |-> photo_name(cmd.path)])
        /\ pc' = "done"
     \/ /\ calls' = Called("execute", FALSE)
        /\ pc' = "failed"
        /\ UNCHANGED <<photos, out>>
  /\ UNCHANGED <<cmd, cars, insertedCars>>
  /\ UNCHANGED recvVars
  /\ UNCHANGED fetchVars

\* The store is bounded: one more document of a foreign shape fits.
ForeignRoom ==
  Cardinality({ i \in 1..Len(photos) : IsForeignPhoto(photos[i]) })
    + Cardinality({ i \in 1..Len(cars) : IsForeignCar(cars[i]) }) < MaxForeign

\* Faulty variant: cancel() leaves the observer delivering.
ObserverLive_after_cancel == observer # "none"

\* The observer still delivers results to its callback.
ObserverLive == observer = "registered"

\* Background sync (started by start_sync) brings in a photo a peer uploaded.
SyncPhoto ==
  /\ pc \in {"synced", "attached", "awaiting", "received", "cancelled", "fetching"}
  /\ cmd.op \in {"upload", "download"}
  /\ StoreHasRoom
  /\ \E d \in { photo_doc(p) : p \in Paths } \cup ForeignPhotos, i \in 0..Len(photos) :
       /\ IsForeignPhoto(d) => ForeignRoom
       /\ photos' = InsertAt(photos, PhotoStored(d, NewId(photos)), i)
  /\ dirty' = (dirty \/ ObserverLive)
  /\ UNCHANGED <<procVars, cars, insertedCars, tx, chan, observer, cbLog, result_item>>
  /\ UNCHANGED fetchVars

\* "SELECT * FROM COLLECTION photos (photo_attachment ATTACHMENT)" with the
\* argument photo_name: the statement has no WHERE clause and does not mention
\* :photo_name, so every document of the collection matches.
select_photos(store, name) == store

\* Faulty variant: tx.take() outside the `if let`: an empty result consumes the sender.
on_result_take_first(query_result, txv, chanv) ==
  [tx |-> FALSE,
   chan |-> IF Len(query_result) > 0 /\ txv THEN Append(chanv, query_result[1]) ELSE chanv]

\* Faulty variant: the sender is not taken: every non-empty result sends item 0.
on_result_resend(query_result, txv, chanv) ==
  IF Len(query_result) > 0
    THEN [tx |-> txv, chan |-> Append(chanv, query_result[1])]
    ELSE [tx |-> txv, chan |-> chanv]

\* The observer closure: |query_result| if let Some(item) = get_item(0)
\* { _ = tx.take().map(|tx| tx.send(item)); }
on_result(query_result, txv, chanv) ==
  IF Len(query_result) > 0
    THEN [tx |-> FALSE,
          chan |-> IF txv THEN Append(chanv, query_result[1]) ELSE chanv]
    ELSE [tx |-> txv, chan |-> chanv]

\* let (tx, rx) = oneshot::channel(); store.register_observer(..)?
receive_photo_document_register ==
  /\ pc = "synced"
  /\ cmd.op = "download"
  /\ \E ok \in BOOLEAN :
       /\ calls' = Called("register_observer", ok)
       /\ pc' = IF ok THEN "awaiting" ELSE "failed"
       /\ tx' = ok
       /\ observer' = IF ok THEN "registered" ELSE "none"
       /\ dirty' = ok
  /\ UNCHANGED <<cmd, out, photos, cars, insertedCars, chan, cbLog, result_item>>
  /\ UNCHANGED fetchVars

\* The store invokes the observer callback with the current result.
ObserverFire ==
  /\ pc \in {"awaiting", "received", "cancelled", "fetching"}
  /\ ObserverLive
  /\ dirty
  /\ Len(cbLog) < MaxCallbacks
  /\ LET r == select_photos(photos, cmd.name)
         n == on_result(r, tx, chan)
     IN /\ tx' = n.tx
        /\ chan' = n.chan
        /\ cbLog' = Append(cbLog, r)
  /\ dirty' = FALSE
  /\ UNCHANGED <<procVars, photos, cars, insertedCars, observer, result_item>>
  /\ UNCHANGED fetchVars

\* let query_item = rx.await?
receive_photo_document_await ==
  /\ pc = "awaiting"
  /\ chan # <<>>
  /\ result_item' = <<Head(chan)>>
  /\ chan' = Tail(chan)
  /\ pc' = "received"
  /\ UNCHANGED <<cmd, calls, out, photos, cars, insertedCars>>
  /\ UNCHANGED <<tx, observer, dirty, cbLog>>
  /\ UNCHANGED fetchVars

\* observer.cancel(); Ok(query_item)
receive_photo_document_cancel ==
  /\ pc = "received"
  /\ observer' = "cancelled"
  /\ pc' = "cancelled"
  /\ UNCHANGED <<cmd, calls, out, photos, cars, insertedCars>>
  /\ UNCHANGED <<tx, chan, dirty, cbLog, result_item>>
  /\ UNCHANGED fetchVars

\* Faulty variant: Deleted => {} instead of panic!.
on_event_deleted_ignored(event, outv, panickedv) ==
  IF event.type = "Progress"
    THEN [out |-> Append(outv, [line |-> "Fetcher progress", id |-> event.id,
                                downloaded_bytes |-> event.downloaded_bytes,
                                total_bytes |-> event.total_bytes]),
          panicked |-> panickedv]
  ELSE IF event.type = "Completed"
    THEN [out |-> Append(outv, [line |-> "Successfully downloaded", id |-> event.id,
                                path |-> event.id]),
          panicked |-> panickedv]
  ELSE [out |-> outv, panicked |-> panickedv]

\* The fetch callback: match event { Progress => println!, Completed =>
\* println!, Deleted => panic! }.  Gives the lines printed and the panic flag.
on_event(event, outv, panickedv) ==
  IF event.type = "Progress"
    THEN [out |-> Append(outv, [line |-> "Fetcher progress", id |-> event.id,
                                downloaded_bytes |-> event.downloaded_bytes,
                                total_bytes |-> event.total_bytes]),
          panicked |-> panickedv]
  ELSE IF event.type = "Completed"
    THEN [out |-> Append(outv, [line |-> "Successfully downloaded", id |-> event.id,
                                path |-> event.id]),
          panicked |-> panickedv]
  ELSE [out |-> outv, panicked |-> TRUE]

\* The three .context(..)? of download_photo: get("photo_attachment"),
\* as_object(), get("id").  "" when all three succeed.
attachment_error(result_value) ==
  IF result_value.photo_attachment.kind = "missing"
    THEN "failed to find photo_attachment"
  ELSE IF result_value.photo_attachment.kind # "object"
    THEN "failed to get attachment token"
  ELSE IF result_value.photo_attachment.id = <<>>
    THEN "failed to get ID of attachment"
  ELSE ""

\* result_item.value().get("photo_attachment") ..; store.fetch_attachment(token, ..)?
download_photo_fetch ==
  /\ pc = "cancelled"
  /\ IF attachment_error(result_item[1]) # ""
       THEN /\ pc' = "failed"
            /\ UNCHANGED <<calls, fetch>>
       ELSE \E ok \in BOOLEAN :
              /\ calls' = Called("fetch_attachment", ok)
              /\ pc' = IF ok THEN "fetching" ELSE "failed"
              /\ fetch' = IF ok
                            THEN [state |-> "Fetching", downloaded |-> 0,
                                  total |-> result_item[1].photo_attachment.len,
                                  id |-> result_item[1].photo_attachment.id[1]]
                            ELSE fetch
  /\ UNCHANGED <<cmd, out, photos, cars, insertedCars, events, panicked>>
  /\ UNCHANGED recvVars

\* Ok(()) right after fetch_attachment returned: _fetcher is dropped,
\* download_photo and main return, the process exits.
download_photo_return ==
  /\ pc = "fetching"
  /\ pc' = "done"
  /\ UNCHANGED <<cmd, calls, out, photos, cars, insertedCars>>
  /\ UNCHANGED recvVars
  /\ UNCHANGED fetchVars

\* The transfer may still deliver events: the fetch is in flight and the
\* process that holds it is alive.
FetchLive == pc = "fetching" /\ fetch.state = "Fetching"

\* Faulty variant: Progress reports the bytes still missing.
ProgressEvent_remaining(f) ==
  [type |-> "Progress", id |-> f.id, downloaded_bytes |-> f.total - f.downloaded,
   total_bytes |-> f.total]

\* What a Progress event reports.
ProgressEvent(f) ==
  [type |-> "Progress", id |-> f.id, downloaded_bytes |-> f.downloaded,
   total_bytes |-> f.total]

\* The fetch after n more bytes of the attachment arrived.
Received(f, n) == [f EXCEPT !.downloaded = f.downloaded + n]

\* Bytes of the attachment arrive (from the local store or a peer).
FetchBytesArrive ==
  /\ FetchLive
  /\ fetch.downloaded < fetch.total
  /\ \E n \in 1..(fetch.total - fetch.downloaded) : fetch' = Received(fetch, n)
  /\ UNCHANGED <<procVars, photos, cars, insertedCars, events, panicked>>
  /\ UNCHANGED recvVars

\* The fetch delivers Progress {downloaded_bytes, total_bytes}.
FetchProgress ==
  /\ FetchLive
  /\ Len(events) < MaxEvents
  /\ LET e == ProgressEvent(fetch)
         n == on_event(e, out, panicked)
     IN /\ events' = Append(events, e)
        /\ out' = n.out
        /\ panicked' = n.panicked
  /\ UNCHANGED <<pc, cmd, calls, photos, cars, insertedCars, fetch>>
  /\ UNCHANGED recvVars

\* All bytes are there: the fetch delivers Completed {attachment}.
FetchCompleted ==
  /\ FetchLive
  /\ fetch.downloaded = fetch.total
  /\ LET e == [type |-> "Completed", id |-> fetch.id,
               downloaded_bytes |-> fetch.downloaded, total_bytes |-> fetch.total]
         n == on_event(e, out, panicked)
     IN /\ events' = Append(events, e)
        /\ out' = n.out
        /\ panicked' = n.panicked
  /\ fetch' = [fetch EXCEPT !.state = "Completed"]
  /\ UNCHANGED <<pc, cmd, calls, photos, cars, insertedCars>>
  /\ UNCHANGED recvVars

\* The attachment was removed: the fetch delivers Deleted.  The panic unwinds
\* in the callback's thread; it either takes the process down or leaves the
\* main task running.
FetchDeleted ==
  /\ FetchLive
  /\ LET e == [type |-> "Deleted", id |-> fetch.id,
               downloaded_bytes |-> fetch.downloaded, total_bytes |-> fetch.total]
         n == on_event(e, out, panicked)
     IN /\ events' = Append(events, e)
        /\ out' = n.out
        /\ panicked' = n.panicked
        /\ \E abort \in BOOLEAN :
             pc' = IF n.panicked /\ abort THEN "aborted" ELSE pc
  /\ fetch' = [fetch EXCEPT !.state = "Deleted"]
  /\ UNCHANGED <<cmd, calls, photos, cars, insertedCars>>
  /\ UNCHANGED recvVars

AttNext ==
  \/ att_main_parse
  \/ att_main_build
  \/ att_main_start_sync
  \/ upload_photo_new_attachment
  \/ upload_photo_execute
  \/ SyncPhoto
  \/ receive_photo_document_register
  \/ ObserverFire
  \/ receive_photo_document_await
  \/ receive_photo_document_cancel
  \/ download_photo_fetch
  \/ download_photo_return
  \/ FetchBytesArrive
  \/ FetchProgress
  \/ FetchCompleted
  \/ FetchDeleted

SpecAtt == Init /\ [][AttNext]_vars

\* ============================================================ simple_dql
DqlCmds ==
  { [op |-> "insert", car |-> c] : c \in Car } \cup
  { [op |-> "select", color |-> c] : c \in Colors }

\* Cli::parse: a new process starts with one subcommand.
dql_main_parse ==
  /\ Exited
  /\ \E c \in DqlCmds : cmd' = c
  /\ pc' = "init"
  /\ calls' = <<>>
  /\ out' = <<>>
  /\ UNCHANGED <<cars, insertedCars>>
  /\ UNCHANGED attVars

\* AppId::from_str, PersistentRoot, with_identity, build: each `?`.
dql_main_build ==
  /\ pc = "init"
  /\ cmd.op \in {"insert", "select"}
  /\ \E ok \in BOOLEAN :
       /\ calls' = Called("build", ok)
       /\ pc' = IF ok THEN "built" ELSE "failed"
  /\ UNCHANGED <<cmd, out, cars, insertedCars>>
  /\ UNCHANGED attVars

\* ditto.start_sync()?
dql_main_start_sync ==
  /\ pc = "built"
  /\ cmd.op \in {"insert", "select"}
  /\ \E ok \in BOOLEAN :
       /\ calls' = Called("start_sync", ok)
       /\ pc' = IF ok THEN "synced" ELSE "failed"
  /\ UNCHANGED <<cmd, out, cars, insertedCars>>
  /\ UNCHANGED attVars

\* serde_json::json!({"newCar": car}): the struct's two fields.  A field of a
\* JSON document is <<value>>, or <<>> when the document does not have it.
car_to_json(car) == [color |-> car.color, make |-> <<car.make>>]

\* Documents another writer put into cars: a color and no make.
ForeignCars == { [color |-> c, make |-> <<>>] : c \in Colors }

\* A stored document: the inserted fields and the id the store gives it.
CarStored(doc, id) == [id |-> id, color |-> doc.color, make |-> doc.make]

\* query_item.deserialize_value::<Car>(): <<car>> of the two fields, the rest
\* dropped, or <<>> (Err: missing field `make`).
deserialize_value(item) ==
  IF item.make = <<>> THEN <<>> ELSE <<[color |-> item.color, make |-> item.make[1]]>>

\* Faulty variant: the statement without its WHERE clause.
select_cars_no_where(store, myColor) == store

\* "SELECT * FROM cars where color = :myColor"
select_cars(store, myColor) == SelectSeq(store, LAMBDA d : d.color = myColor)

\* "Inserted {n} car{s}"
inserted_line(mutations) ==
  [line |-> "Inserted", n |-> Cardinality(mutations),
   s |-> IF Cardinality(mutations) = 1 THEN "" ELSE "s"]

\* "Selected {n} cars with color=..", then one line per car.
selected_lines(found, color) ==
  <<[line |-> "Selected", n |-> Len(found), color |-> color]>> \o
  [i \in 1..Len(found) |-> [line |-> "Car", color |-> color, car |-> found[i]]]

\* dql_insert_car(&ditto, &car).await?, then the Inserted line.
dql_insert_car ==
  /\ pc = "synced"
  /\ cmd.op = "insert"
  /\ \/ /\ StoreHasRoom
        /\ \E i \in 0..Len(cars) :
             cars' = InsertAt(cars, CarStored(car_to_json(cmd.car), NewId(cars)), i)
        /\ insertedCars' = insertedCars \cup {cmd.car}
        /\ calls' = Called("execute", TRUE)
        /\ out' = Append(out, inserted_line({NewId(cars)}))
        /\ pc' = "done"
     \/ /\ calls' = Called("execute", FALSE)
        /\ pc' = "failed"
        /\ UNCHANGED <<cars, insertedCars, out>>
  /\ UNCHANGED cmd
  /\ UNCHANGED attVars

\* dql_select_cars(&ditto, &color).await?, then the Selected and Car lines.
dql_select_cars ==
  /\ pc = "synced"
  /\ cmd.op = "select"
  /\ \/ /\ calls' = Called("execute", TRUE)
        /\ LET query_result == select_cars(cars, cmd.color)
               results == [i \in 1..Len(query_result) |-> deserialize_value(query_result[i])]
               found == [i \in 1..Len(results) |-> results[i][1]]
           IN IF \E i \in 1..Len(results) : results[i] = <<>>
                THEN pc' = "failed" /\ UNCHANGED out
                ELSE pc' = "done" /\ out' = out \o selected_lines(found, cmd.color)
     \/ /\ calls' = Called("execute", FALSE)
        /\ pc' = "failed"
        /\ UNCHANGED out
  /\ UNCHANGED <<cmd, cars, insertedCars>>
  /\ UNCHANGED attVars

\* Background sync (started by start_sync) brings in a car a peer inserted.
SyncCar ==
  /\ pc = "synced"
  /\ cmd.op \in {"insert", "select"}
  /\ StoreHasRoom
  /\ \E d \in { car_to_json(c) : c \in Car } \cup ForeignCars, i \in 0..Len(cars) :
       /\ IsForeignCar(d) => ForeignRoom
       /\ cars' = InsertAt(cars, CarStored(d, NewId(cars)), i)
  /\ UNCHANGED <<procVars, insertedCars>>
  /\ UNCHANGED attVars

DqlNext ==
  \/ dql_main_parse
  \/ dql_main_build
  \/ dql_main_start_sync
  \/ dql_insert_car
  \/ dql_select_cars
  \/ SyncCar

SpecDql == Init /\ [][DqlNext]_vars

Next == AttNext \/ DqlNext

Spec == Init /\ [][Next]_vars

\* ================================================================ claims
Terminal == {"Completed", "Deleted"}
TerminalEvents == { i \in 1..Len(events) : events[i].type \in Terminal }
SavedLines == { i \in 1..Len(out) : out[i].line = "Successfully downloaded" }
NonEmptyCallbacks == { i \in 1..Len(cbLog) : cbLog[i] # <<>> }
FirstNonEmpty == cbLog[CHOOSE i \in NonEmptyCallbacks : \A j \in NonEmptyCallbacks : i <= j]
ItemsSent == Len(chan) + Len(result_item)
DownloadRun == cmd.op = "download"

\* C1: a download-photo run that fetched the photo stored under its --name
\* and has finished has had a Completed event delivered to its fetch callback
\* and printed the saved-path line; it never finishes while its fetch is
\* still Fetching.
C1_DownloadEndsCompleted ==
  (DownloadRun /\ pc = "done" /\ result_item[1].photo_name = cmd.name) =>
     /\ fetch.state = "Completed"
     /\ SavedLines # {}

\* C2: the document receive_photo_document returns has photo_name equal to
\* the --name argument.
C2_LookupByName ==
  (DownloadRun /\ result_item # <<>>) => result_item[1].photo_name = cmd.name

\* C3: a fetch that download-photo started has had exactly one terminal
\* event delivered by the time the command has finished.
C3_ExactlyOneTerminal ==
  (DownloadRun /\ pc = "done") => Cardinality(TerminalEvents) = 1

\* C3 (safety part, holds): at most one terminal event is delivered, it is the
\* last event, and the fetch state follows the events.
C3_AtMostOneTerminalAndLast ==
  /\ Cardinality(TerminalEvents) <= 1
  /\ \A i \in TerminalEvents : i = Len(events) /\ fetch.state = events[i].type
  /\ (TerminalEvents = {} /\ fetch.state # "Idle") => fetch.state = "Fetching"

\* C4: the downloaded_bytes of successive Progress events never decrease and
\* never exceed total_bytes, and downloaded_bytes equals total_bytes when
\* Completed is delivered.
C4_ProgressMonotone ==
  \A i \in 1..Len(events) :
    /\ events[i].type = "Progress" => events[i].downloaded_bytes <= events[i].total_bytes
    /\ events[i].type = "Completed" => events[i].downloaded_bytes = events[i].total_bytes
    /\ \A j \in 1..Len(events) :
         (i < j /\ events[i].type = "Progress" /\ events[j].type = "Progress")
           => events[i].downloaded_bytes <= events[j].downloaded_bytes

C4_Witness ==
  /\ Len(events) = 3
  /\ events[1].type = "Progress"
  /\ events[2].type = "Progress"
  /\ events[1].downloaded_bytes < events[2].downloaded_bytes
  /\ events[3].type = "Completed"

\* The cars of the selected color inserted before are all printed, and only
\* cars of the selected color are.
SelectPrinted ==
  /\ \A c \in insertedCars :
       c.color = cmd.color =>
         \E i \in 1..Len(out) : out[i].line = "Car" /\ out[i].car = c
  /\ \A i \in 1..Len(out) : out[i].line = "Car" => out[i].car.color = cmd.color

\* A document of the selected color has no make.
SelectHitsForeign ==
  \E j \in 1..Len(cars) : cars[j].color = cmd.color /\ IsForeignCar(cars[j])

\* The select-cars process got its result set from execute.
SelectExecuted ==
  cmd.op = "select" /\ calls # <<>> /\ calls[Len(calls)] = [call |-> "execute", ok |-> TRUE]

\* C5 as stated: whatever the cars collection holds, a select-cars whose
\* query ran prints every car inserted before it whose color is the selected
\* one, and only cars of the selected color.
C5_InsertThenSelectAnyContent == SelectExecuted => SelectPrinted

\* C5 amended: a select-cars that succeeds prints every car inserted before it
\* whose color is the selected one, and only cars of that color; it fails and
\* prints nothing exactly when a document of that color does not deserialize.
C5_InsertThenSelect ==
  SelectExecuted =>
     /\ pc \in {"done", "failed"}
     /\ pc = "done" => (SelectPrinted /\ ~SelectHitsForeign)
     /\ pc = "failed" => (out = <<>> /\ SelectHitsForeign)

C5_Witness ==
  /\ cmd.op = "select"
  /\ pc = "done"
  /\ \E c \in insertedCars : c.color = cmd.color
  /\ \E j \in 1..Len(cars) : cars[j].color # cmd.color

\* C6: once observer.cancel() has been called the observer callback is not
\* invoked again in that run.
C6_NoCallbackAfterCancel ==
  [][(observer = "cancelled" /\ observer' = "cancelled") => cbLog' = cbLog]_vars

\* A photo arrived after the cancel and was not delivered.
C6_Witness ==
  /\ observer = "cancelled"
  /\ ~dirty
  /\ Len(cbLog) >= 1
  /\ Len(photos) > Len(cbLog[Len(cbLog)])

\* C7: a failed facade call is the last call of its process and the process
\* ends failed; nothing is printed after a failed new_attachment or execute.
C7_FailureEndsCommand ==
  /\ \A i \in 1..Len(calls) : ~calls[i].ok => (i = Len(calls) /\ pc = "failed")
  /\ \A i \in 1..Len(calls) :
       (calls[i].call \in {"new_attachment", "execute"} /\ ~calls[i].ok) => out = <<>>
  /\ \A i \in 1..Len(out) :
       out[i].line \in {"Uploaded", "Inserted", "Selected", "Car"} =>
         (calls # <<>> /\ calls[Len(calls)] = [call |-> "execute", ok |-> TRUE])

C7_Witness ==
  /\ pc = "failed"
  /\ cmd.op = "upload"
  /\ calls[Len(calls)] = [call |-> "new_attachment", ok |-> FALSE]

\* C8 as stated: once the observer callback has been invoked, the one-shot
\* signal is satisfied.
C8_FirstCallbackReleases ==
  (DownloadRun /\ Len(cbLog) >= 1) => (~tx /\ ItemsSent = 1)

\* C8 amended: the signal is satisfied exactly when the callback has been
\* invoked with a non-empty result; the awaiting command is then released.
C8_FirstNonEmptyReleases ==
  DownloadRun =>
     /\ (NonEmptyCallbacks # {}) <=> (ItemsSent = 1)
     /\ (pc = "awaiting" /\ NonEmptyCallbacks # {}) => chan # <<>>
     /\ (pc = "awaiting" /\ NonEmptyCallbacks = {}) => chan = <<>>

C8_Witness ==
  /\ Len(cbLog) >= 2
  /\ cbLog[1] = <<>>
  /\ cbLog[2] # <<>>
  /\ result_item # <<>>

\* C9: the callback panics on Deleted and only on Deleted, and no saved-path
\* line is printed for a fetch that delivered Deleted.
C9_DeletedIsFatal ==
  /\ panicked <=> (\E i \in 1..Len(events) : events[i].type = "Deleted")
  /\ panicked => SavedLines = {}
  /\ pc = "aborted" => panicked
  /\ Cardinality(SavedLines) =
       Cardinality({ i \in 1..Len(events) : events[i].type = "Completed" })

C9_Witness ==
  /\ panicked
  /\ Len(events) >= 2
  /\ events[1].type = "Progress"

\* C10: at most one item is ever sent; the sender is gone exactly when a
\* non-empty result has been delivered; the item received is item 0 of the
\* first non-empty result.
C10_OneShot ==
  /\ ItemsSent <= 1
  /\ observer # "none" => (tx <=> NonEmptyCallbacks = {})
  /\ NonEmptyCallbacks = {} => ItemsSent = 0
  /\ chan # <<>> => chan[1] = FirstNonEmpty[1]
  /\ result_item # <<>> => result_item[1] = FirstNonEmpty[1]

C10_Witness ==
  /\ Len(cbLog) >= 3
  /\ cbLog[1] = <<>>
  /\ cbLog[2] # <<>>
  /\ cbLog[3] # <<>>
  /\ cbLog[3][1] # cbLog[2][1]
  /\ result_item # <<>>

====
